---- MODULE Spec2Model ----
(***************************************************************************)
(* A model of gonzalo-mangado/logging: package metrics (Metric Lists,      *)
(* PushMetric, Transaction / Segment) and package log (level filter, log   *)
(* contexts, the verbs and logContext.Log), from src/metrics/metrics.go.   *)
(*                                                                         *)
(* Go values are modelled as follows.                                      *)
(*   - a slice is a header [arr, len, cap] over a backing array held in    *)
(*     `arrays`; append writes in place while len < cap and otherwise      *)
(*     copies to a fresh array (the Go runtime doubles small capacities);  *)
(*   - a map (Tags) held by a log context is a reference into `heap`;      *)
(*   - a *Transaction / *Segment is an index into `trxs` / `segs`, 0 is    *)
(*     the nil pointer; the wrapped backend handle is a number, 0 is the   *)
(*     nil handle;                                                         *)
(*   - the backend (godog, newrelic) is the sequence of calls made on it.  *)
(***************************************************************************)
EXTENDS Integers, Sequences, FiniteSets, TLC

VARIABLES
  arrays,       \* backing arrays of []Metric slices: Seq(Seq(Metric))
  lists,        \* the Metrics values built so far: Seq([arr, len, cap])
  expect,       \* history: for each list, its records at the time it was returned
  namePrefix,   \* metrics.namePrefix
  defaultTags,  \* metrics.defaultTags
  Level,        \* log.Level
  pushMetrics,  \* log.pushMetrics
  heap,         \* the maps (log.Tags, metrics.Tags) held by log contexts
  ctxs,         \* the logContext values built so far
  born,         \* history: for each context, what it held when it was built
  trxs,         \* the metrics.Transaction objects: Seq([nrTrx])
  segs,         \* the metrics.Segment objects: Seq([nrSeg])
  nrEnd,        \* backend: number of End calls received per handle
  argv,         \* the variadic arguments the verbs of this run are called with
  last          \* the outcome of the last call: lines, backend calls, result

vars == << arrays, lists, expect, namePrefix, defaultTags, Level, pushMetrics,
           heap, ctxs, born, trxs, segs, nrEnd, argv, last >>

listVars == << arrays, lists, expect >>
metricVars == << namePrefix, defaultTags >>
logVars == << Level, pushMetrics >>
ctxVars == << heap, ctxs, born >>
trxVars == << trxs, segs, nrEnd >>

-----------------------------------------------------------------------------
(* Bounds of the model *)

MaxLists == 3      \* Metrics values per behaviour (the base and its branches)
MaxBase == 3       \* records of the base list the branches start from
MaxValue == 2      \* metric values are 1..MaxValue

-----------------------------------------------------------------------------
(* package metrics: constants and types *)

FULL == "F"
SIMPLE == "S"
COMPOUND == "C"
ERROR == "E"

MetricTypes == {FULL, SIMPLE, COMPOUND, ERROR}
Names == {"a", "b"}
Values == 1..MaxValue

\* A Tags value: a finite map from strings to (formatted) values.
EmptyTags == [k \in {} |-> ""]

\* Metric{metricType, Name, Value, tags}
Metric(t, n, v, tg) == [metricType |-> t, Name |-> n, Value |-> v, tags |-> tg]
ZeroMetric == Metric("", "", 0, EmptyTags)

\* Tags.Merge / mergeTags on values: rightmost argument wins; a single
\* argument is returned as it is.
RECURSIVE mergeAll(_)
mergeAll(ts) ==
  IF Len(ts) = 0 THEN EmptyTags
  ELSE LET a == mergeAll(SubSeq(ts, 1, Len(ts) - 1))
           b == ts[Len(ts)]
       IN [k \in DOMAIN a \cup DOMAIN b |-> IF k \in DOMAIN b THEN b[k] ELSE a[k]]

mergeTags(ts) == IF Len(ts) = 1 THEN ts[1] ELSE mergeAll(ts)

TagsMerge(tags, other) == mergeTags(<< tags, other >>)

-----------------------------------------------------------------------------
(* Go slices of Metric *)

NilSlice == [arr |-> 0, len |-> 0, cap |-> 0]

\* runtime growslice for an append of one element to a small slice: the
\* capacity doubles (48-byte elements: 1, 2, 4, 8 are all size classes).
GrowCap(oldCap, newLen) == IF newLen > 2 * oldCap THEN newLen ELSE 2 * oldCap

\* The records a slice denotes.
Contents(arrs, s) == IF s.arr = 0 THEN << >> ELSE SubSeq(arrs[s.arr], 1, s.len)

\* append(s, m): [arrays, slice] after the call.
appendInPlace(arrs, s, m) ==
  [arrays |-> [arrs EXCEPT ![s.arr][s.len + 1] = m],
   slice  |-> [arr |-> s.arr, len |-> s.len + 1, cap |-> s.cap]]

appendCopy(arrs, s, m) ==
  LET c == GrowCap(s.cap, s.len + 1)
      old == Contents(arrs, s)
      new == [i \in 1..c |-> IF i <= s.len THEN old[i]
                             ELSE IF i = s.len + 1 THEN m ELSE ZeroMetric]
  IN [arrays |-> Append(arrs, new),
      slice  |-> [arr |-> Len(arrs) + 1, len |-> s.len + 1, cap |-> c]]

append(arrs, s, m) ==
  IF s.len + 1 <= s.cap THEN appendInPlace(arrs, s, m) ELSE appendCopy(arrs, s, m)

\* []Metric{m}: a fresh one-element slice.
literal(arrs, m) ==
  [arrays |-> Append(arrs, << m >>),
   slice  |-> [arr |-> Len(arrs) + 1, len |-> 1, cap |-> 1]]

\* The base list: Full("a", 1) followed by n - 1 fluent Simple("a", 1) adds.
RECURSIVE BuildBase(_)
BuildBase(n) ==
  IF n = 1 THEN literal(<< >>, Metric(FULL, "a", 1, EmptyTags))
  ELSE LET b == BuildBase(n - 1)
       IN append(b.arrays, b.slice, Metric(SIMPLE, "a", 1, EmptyTags))

-----------------------------------------------------------------------------
(* package metrics: the Metric List constructors *)

\* A fluent add: Metrics{append(metrics.Values, m)}
Add(i, m) ==
  /\ Len(lists) < MaxLists
  /\ LET r == append(arrays, lists[i], m)
     IN /\ arrays' = r.arrays
        /\ lists' = Append(lists, r.slice)
        /\ expect' = Append(expect, Append(expect[i], m))
  /\ UNCHANGED << argv, metricVars, logVars, ctxVars, trxVars, last >>

\* A fresh constructor: Metrics{[]Metric{m}}
Fresh(m) ==
  /\ Len(lists) < MaxLists
  /\ LET r == literal(arrays, m)
     IN /\ arrays' = r.arrays
        /\ lists' = Append(lists, r.slice)
        /\ expect' = Append(expect, << m >>)
  /\ UNCHANGED << argv, metricVars, logVars, ctxVars, trxVars, last >>

MetricsFull(i, name, value, tags) == Add(i, Metric(FULL, name, value, mergeTags(tags)))
MetricsSimple(i, name, value, tags) == Add(i, Metric(SIMPLE, name, value, mergeTags(tags)))
MetricsCompound(i, name, value, tags) == Add(i, Metric(COMPOUND, name, value, mergeTags(tags)))
MetricsCounter(i, name, tags) == Add(i, Metric(SIMPLE, name, 1, mergeTags(tags)))
MetricsError(i, name, tags) == Add(i, Metric(ERROR, name, 1, mergeTags(tags)))

Full(name, value, tags) == Fresh(Metric(FULL, name, value, mergeTags(tags)))
Simple(name, value, tags) == Fresh(Metric(SIMPLE, name, value, mergeTags(tags)))
Error(name, tags) == Fresh(Metric(ERROR, name, 1, mergeTags(tags)))
Compound(name, value, tags) == Fresh(Metric(COMPOUND, name, value, mergeTags(tags)))
Counter(name, tags) == Fresh(Metric(SIMPLE, name, 1, mergeTags(tags)))

-----------------------------------------------------------------------------
(* The outcome of a call, kept in `last` *)

\* op: the operation; c: the receiving context (0: none); threshold, push:
\* log.Level and log.pushMetrics when it was called; args: the variadic
\* arguments; metric, trx, extra: PushMetric's arguments; gate: a verb's fixed
\* severity; lines: the lines written to the output, in order; calls: the
\* backend calls made, in order; ret: the returned error, << >> for nil or
\* none; panic: the call panicked; exit: the call ended in os.Exit(1).
NoCall ==
  [op |-> "", c |-> 0, threshold |-> 0, push |-> FALSE, args |-> << >>,
   metric |-> ZeroMetric, trx |-> 0, extra |-> << >>, gate |-> 0,
   lines |-> << >>, calls |-> << >>, ret |-> << >>,
   panic |-> FALSE, exit |-> FALSE]

\* A backend call: fn on handle h (0: a godog call) with a qualified name, a
\* value and the flat tag list (an unordered list of "k:v", here pairs).
Call(fn, h, name, value, tags) ==
  [fn |-> fn, h |-> h, name |-> name, value |-> value, tags |-> tags]

-----------------------------------------------------------------------------
(* package metrics: PushMetric *)

Prefixes == {"", "svc"}
Trxs == 0..Len(trxs)

UsePrefix(prefix) ==
  /\ namePrefix' = prefix
  /\ last' = [NoCall EXCEPT !.op = "UsePrefix"]
  /\ UNCHANGED << argv, listVars, defaultTags, logVars, ctxVars, trxVars >>

DefaultTags(tags) ==
  /\ defaultTags' = tags
  /\ last' = [NoCall EXCEPT !.op = "DefaultTags"]
  /\ UNCHANGED << argv, listVars, namePrefix, logVars, ctxVars, trxVars >>

\* Tags.asMetricTags: one "k:v" per entry, in map iteration order.
asMetricTags(tags) == { << k, tags[k] >> : k \in DOMAIN tags }

\* namePrefix + "." + metric.Name
QualifiedName(name) == << namePrefix, ".", name >>

\* Transaction.NoticeError: the backend calls it makes.
TransactionNoticeError(t, name) ==
  IF trxs[t].nrTrx # 0
  THEN << Call("NoticeError", trxs[t].nrTrx, name, 0, {}) >>
  ELSE << >>

\* The tag list PushMetric forwards.
PushTags(metric, tags) == asMetricTags(TagsMerge(defaultTags, mergeTags(tags)))

\* PushMetric(metric, trx, tags...): the backend calls made and the error
\* returned (<< >> is nil).
PushMetricNoticeNever(metric, t) == << >>

PushMetricNotice(metric, t) ==
  IF t # 0 THEN TransactionNoticeError(t, QualifiedName(metric.Name)) ELSE << >>

\* PushMetric without its default case: an unknown type is recorded as a
\* simple metric and no error is returned.
PushMetricResultNoDefault(metric, t, tags) ==
  [calls |-> << Call("RecordSimpleMetric", 0, QualifiedName(metric.Name), metric.Value,
                     PushTags(metric, tags)) >>,
   err |-> << >>]

PushMetricResult(metric, t, tags) ==
  LET name == QualifiedName(metric.Name)
      strTags == PushTags(metric, tags)
  IN CASE metric.metricType = FULL ->
            [calls |-> << Call("RecordFullMetric", 0, name, metric.Value, strTags) >>,
             err |-> << >>]
       [] metric.metricType = SIMPLE ->
            [calls |-> << Call("RecordSimpleMetric", 0, name, metric.Value, strTags) >>,
             err |-> << >>]
       [] metric.metricType = COMPOUND ->
            [calls |-> << Call("RecordCompoundMetric", 0, name, metric.Value, strTags) >>,
             err |-> << >>]
       [] metric.metricType = ERROR ->
            [calls |-> PushMetricNotice(metric, t)
                         \o << Call("RecordSimpleMetric", 0, name, 1, strTags) >>,
             err |-> << >>]
       [] OTHER ->
            [calls |-> << >>, err |-> << "Unkown metric type", metric.metricType >>]

PushMetric(metric, t, tags) ==
  /\ LET r == PushMetricResult(metric, t, tags)
     IN last' = [NoCall EXCEPT !.op = "PushMetric", !.metric = metric, !.trx = t,
                               !.extra = tags, !.calls = r.calls, !.ret = r.err]
  /\ UNCHANGED << argv, listVars, metricVars, logVars, ctxVars, trxVars >>

-----------------------------------------------------------------------------
(* package metrics: Transaction and Segment *)

MaxTrx == 2        \* Transaction objects built per behaviour
MaxSegs == 2       \* Segment objects built per behaviour
MaxEnds == 2       \* End calls counted per backend handle

\* NewRelicApp.StartTransaction / newrelic.StartSegment: a new backend handle.
StartTransaction(b) == [b EXCEPT !.trx = Append(@, 0)]
StartSegment(b) == [b EXCEPT !.seg = Append(@, 0)]

\* Trx(id): &Transaction{nrTrx}
Trx(id) ==
  /\ Len(trxs) < MaxTrx
  /\ nrEnd' = StartTransaction(nrEnd)
  /\ trxs' = Append(trxs, [nrTrx |-> Len(nrEnd'.trx)])
  /\ last' = [NoCall EXCEPT !.op = "Trx", !.trx = Len(trxs')]
  /\ UNCHANGED << argv, listVars, metricVars, logVars, ctxVars, segs >>

\* trx.Segment(name): &Segment{newrelic.StartSegment(trx.nrTrx, name)}
TransactionSegment(t, name) ==
  /\ Len(segs) < MaxSegs
  /\ nrEnd' = StartSegment(nrEnd)
  /\ segs' = Append(segs, [nrSeg |-> Len(nrEnd'.seg)])
  /\ last' = [NoCall EXCEPT !.op = "Segment", !.trx = t]
  /\ UNCHANGED << argv, listVars, metricVars, logVars, ctxVars, trxs >>

\* NullSegment(): &Segment{}
NullSegment ==
  /\ Len(segs) < MaxSegs
  /\ segs' = Append(segs, [nrSeg |-> 0])
  /\ last' = [NoCall EXCEPT !.op = "NullSegment"]
  /\ UNCHANGED << argv, listVars, metricVars, logVars, ctxVars, trxs, nrEnd >>

\* trx.End(): the backend after the call.
TransactionEndBackend(b, t) ==
  IF trxs[t].nrTrx # 0 THEN [b EXCEPT !.trx[trxs[t].nrTrx] = @ + 1] ELSE b

\* seg.End(): the backend after the call.
SegmentEndBackend(b, s) ==
  IF segs[s].nrSeg # 0 THEN [b EXCEPT !.seg[segs[s].nrSeg] = @ + 1] ELSE b

TransactionEnd(t) ==
  /\ trxs[t].nrTrx # 0 => nrEnd.trx[trxs[t].nrTrx] < MaxEnds
  /\ nrEnd' = TransactionEndBackend(nrEnd, t)
  /\ last' = [NoCall EXCEPT !.op = "Transaction.End", !.trx = t]
  /\ UNCHANGED << argv, listVars, metricVars, logVars, ctxVars, trxs, segs >>

SegmentEnd(s) ==
  /\ segs[s].nrSeg # 0 => nrEnd.seg[segs[s].nrSeg] < MaxEnds
  /\ nrEnd' = SegmentEndBackend(nrEnd, s)
  /\ last' = [NoCall EXCEPT !.op = "Segment.End", !.trx = s]
  /\ UNCHANGED << argv, listVars, metricVars, logVars, ctxVars, trxs, segs >>

-----------------------------------------------------------------------------
(* package log: levels *)

TRACE == -1
DEBUG == 0
INFO == 1
METRICS == 1
WARN == 2
LOG_ERROR == 4     \* log.ERROR (metrics.ERROR is the metric type "E")
CRITIC == 4
FATAL == 4
NONE == 100

levelNames ==
  [n \in {"TRACE", "DEBUG", "INFO", "WARN", "ERROR", "CRITIC", "FATAL", "NONE"} |->
     CASE n = "TRACE" -> TRACE
       [] n = "DEBUG" -> DEBUG
       [] n = "INFO" -> INFO
       [] n = "WARN" -> WARN
       [] n = "ERROR" -> LOG_ERROR
       [] n = "CRITIC" -> CRITIC
       [] n = "FATAL" -> FATAL
       [] n = "NONE" -> NONE]

\* The thresholds SetLevel is called with: every named level and one value
\* just above the highest severity.
LevelInputs == {TRACE, DEBUG, INFO, WARN, LOG_ERROR, LOG_ERROR + 1, NONE}
NameInputs == DOMAIN levelNames \cup {"VERBOSE"}
EnvInputs == {"", "debug", "INFO", "verbose"}

\* strings.ToUpper on the environment values used here.
ToUpper(s) ==
  CASE s = "debug" -> "DEBUG"
    [] s = "verbose" -> "VERBOSE"
    [] OTHER -> s

SetLevel(l) ==
  /\ Level' = l
  /\ last' = [NoCall EXCEPT !.op = "SetLevel"]
  /\ UNCHANGED << argv, listVars, metricVars, pushMetrics, ctxVars, trxVars >>

\* panics on a name that is not in levelNames
SetLevelByName(name) ==
  /\ Level' = IF name \in DOMAIN levelNames THEN levelNames[name] ELSE Level
  /\ last' = [NoCall EXCEPT !.op = "SetLevelByName",
                            !.panic = name \notin DOMAIN levelNames]
  /\ UNCHANGED << argv, listVars, metricVars, pushMetrics, ctxVars, trxVars >>

SetLevelFromEnv(env) ==
  /\ Level' = IF env # "" /\ ToUpper(env) \in DOMAIN levelNames
              THEN levelNames[ToUpper(env)] ELSE Level
  /\ last' = [NoCall EXCEPT !.op = "SetLevelFromEnv",
                            !.panic = env # "" /\ ToUpper(env) \notin DOMAIN levelNames]
  /\ UNCHANGED << argv, listVars, metricVars, pushMetrics, ctxVars, trxVars >>

\* log.PushMetrics(prefix, enviroment)
PushMetrics(prefix, enviroment) ==
  /\ pushMetrics' = TRUE
  /\ namePrefix' = prefix
  /\ defaultTags' = [k \in {"cluster"} |-> enviroment]
  /\ last' = [NoCall EXCEPT !.op = "PushMetrics"]
  /\ UNCHANGED << argv, listVars, Level, ctxVars, trxVars >>

-----------------------------------------------------------------------------
(* package log: Tags and the arguments of a verb *)

MaxArgs == 2       \* variadic arguments per verb call
MaxCtx == 3        \* logContext values per behaviour

\* log.Tags.merge, on the contents of the two maps.
mergeContent(tags, other) ==
  [k \in DOMAIN tags \cup DOMAIN other |->
     IF k \in DOMAIN other THEN other[k] ELSE tags[k]]

\* tags.merge(other) writing into the receiver instead of a new map.
mergeInPlace(h, tags, other) ==
  [h |-> [h EXCEPT ![tags] = mergeContent(h[tags], other)], r |-> tags]

\* tags.merge(other): a new map; [h: the heap after the call, r: the result].
merge(h, tags, other) ==
  [h |-> Append(h, mergeContent(h[tags], other)), r |-> Len(h) + 1]

\* metricTags.Merge(other): mergeTags of the two, a new map.
Merge(h, tags, other) ==
  [h |-> Append(h, TagsMerge(h[tags], other)), r |-> Len(h) + 1]

\* A numeric tag value as the emitter prints it (%+v).
Digits == << "1", "2", "3", "4", "5" >>
FormatValue(n) == IF n \in 1..Len(Digits) THEN Digits[n] ELSE "0"

\* The dynamic type of a variadic argument and its value.
ArgString(s) == [kind |-> "string", s |-> s, t |-> EmptyTags, m |-> << >>]
ArgTags(t) == [kind |-> "Tags", s |-> "", t |-> t, m |-> << >>]
ArgMetrics(m) == [kind |-> "Metrics", s |-> "", t |-> EmptyTags, m |-> m]
ArgMetricTags(t) == [kind |-> "metrics.Tags", s |-> "", t |-> t, m |-> << >>]
ArgOther == [kind |-> "other", s |-> "", t |-> EmptyTags, m |-> << >>]

\* Metric Lists a caller passes: built by the constructors, or a literal that
\* holds a zero Metric (its unexported type is "").
MetricsA == << Metric(SIMPLE, "a", 1, EmptyTags), Metric(FULL, "b", MaxValue, EmptyTags) >>
MetricsB == << Metric(ERROR, "b", 1, EmptyTags), ZeroMetric >>

ArgChoices ==
  { ArgString("ev"), ArgTags([k \in {"x"} |-> "2"]), ArgMetrics(MetricsA),
    ArgMetrics(MetricsB), ArgMetricTags([k \in {"m"} |-> "1"]), ArgOther }

ArgLists == UNION { [1..n -> ArgChoices] : n \in 0..MaxArgs }

-----------------------------------------------------------------------------
(* package log: logContext.Log *)

\* The state of Log's loop over eventsAndTags: the heap, the call's tags, the
\* metric-tags, the metrics retained for forwarding, and whether it panicked.
LogState(h, tags, metricTags, metric, panic) ==
  [h |-> h, tags |-> tags, metricTags |-> metricTags, metric |-> metric, panic |-> panic]

\* tags = tags.merge(...)
LogTagged(st, r) == LogState(r.h, r.r, st.metricTags, st.metric, st.panic)

\* metricTags = metricTags.Merge(mTags)
LogMetricTagged(st, r) == LogState(r.h, st.tags, r.r, st.metric, st.panic)

\* for _, value := range m.Values { tags = tags.merge(Tags{value.Name: value.Value}) }
RECURSIVE LogValues(_, _)
LogValues(st, values) ==
  IF values = << >> THEN st
  ELSE LogValues(LogTagged(st, merge(st.h, st.tags,
                    [k \in {Head(values).Name} |-> FormatValue(Head(values).Value)])),
                 Tail(values))

\* metric = m
LogRetain(st, m) == LogState(st.h, st.tags, st.metricTags, m, st.panic)

\* One iteration of the loop over eventsAndTags.
LogArg(st, a) ==
  CASE a.kind = "string" ->
         LogTagged(st, merge(st.h, st.tags, [k \in {"event"} |-> a.s]))
    [] a.kind = "Tags" ->
         LogTagged(st, merge(st.h, st.tags, a.t))
    [] a.kind = "Metrics" ->
         LogValues(LogRetain(st, a.m), a.m)
    [] a.kind = "metrics.Tags" ->
         LogMetricTagged(st, Merge(st.h, st.metricTags, a.t))
    [] OTHER -> LogState(st.h, st.tags, st.metricTags, st.metric, TRUE)

RECURSIVE LogArgs(_, _)
LogArgs(st, args) ==
  IF args = << >> \/ st.panic THEN st
  ELSE LogArgs(LogArg(st, Head(args)), Tail(args))

\* The message of the nested error for a PushMetric error.
PushErrorMessage(err) ==
  IF err[2] = "" THEN "Error pushing metric: Unkown metric type: "
  ELSE "Error pushing metric: Unkown metric type: ?"

\* The outcome of (a part of) Log: the heap after it, whether it panicked,
\* the lines written and the backend calls made.
Outcome(h, panic, lines, calls) ==
  [h |-> h, panic |-> panic, lines |-> lines, calls |-> calls]

\* Log(context.tags.merge(Tags{"level": level, "message": message}).merge(tags)),
\* m1 being the first merge.
LogEmit(m2) == Outcome(m2.h, FALSE, << m2.h[m2.r] >>, << >>)
LogMerged(m1, tags) == LogEmit(merge(m1.h, m1.r, m1.h[tags]))
LogLine(h, c, level, message, tags) ==
  LogMerged(merge(h, c.tags,
                  [k \in {"level", "message"} |-> IF k = "level" THEN level ELSE message]),
            tags)

\* Errorf's gate.
ErrorfOpen == Level <= LOG_ERROR

\* context.Errorf("Error pushing metric: %s", err) called by Log: Log is
\* called again with the message alone when the gate is open.
LogErrorf(h, c, err) ==
  IF ErrorfOpen
  THEN LogLine(Append(h, EmptyTags), c, "error", PushErrorMessage(err), Len(h) + 1)
  ELSE Outcome(h, FALSE, << >>, << >>)

\* One iteration of the loop over metric.Values, after PushMetric returned p.
LogPushed(h, c, p) ==
  IF p.err # << >> THEN LogErrorf(h, c, p.err) ELSE Outcome(h, FALSE, << >>, << >>)

\* o followed by e, then by the backend calls.
Then(o, e, calls) == Outcome(e.h, FALSE, o.lines \o e.lines, o.calls \o calls)

\* for _, m := range metric.Values { PushMetric(m, context.transaction, metricTags) ... }
RECURSIVE LogPush(_, _, _, _)
LogPushOne(o, c, metricTags, p) == Then(o, LogPushed(o.h, c, p), p.calls)
LogPush(o, c, metricTags, values) ==
  IF values = << >> THEN o
  ELSE LogPush(LogPushOne(o, c, metricTags,
                          PushMetricResult(Head(values), c.transaction,
                                           << o.h[metricTags] >>)),
               c, metricTags, Tail(values))

\* Log after the loop over eventsAndTags ended in state st.
LogForward(o, c, st) ==
  IF pushMetrics THEN LogPush(o, c, st.metricTags, st.metric) ELSE o

LogClassified(st, c, level, message) ==
  IF st.panic THEN Outcome(st.h, TRUE, << >>, << >>)
  ELSE LogForward(LogLine(st.h, c, level, message, st.tags), c, st)

\* logContext.Log(level, message, eventsAndTags...) on context c with heap h.
LogResult(h, c, level, message, args) ==
  LogClassified(LogArgs(LogState(Append(h, EmptyTags), Len(h) + 1, c.metricTags,
                                 << >>, FALSE), args),
                c, level, message)

-----------------------------------------------------------------------------
(* package log: the verbs *)

Messages == {"boom"}
Ctxs == 1..Len(ctxs)

\* The level gates: TRUE when the verb goes on to logContext.Log.
ErrorOpenAlways == TRUE
ErrorOpen == Level <= LOG_ERROR
CriticOpen == Level <= CRITIC
FatalfOpen == Level <= FATAL
InfoOpen == ~(Level > INFO)
DebugOpenStrict == ~(Level >= DEBUG)
DebugOpen == ~(Level > DEBUG)
TraceOpen == ~(Level > TRACE)
MetricOpen == ~(Level > METRICS)

Skipped == Outcome(heap, FALSE, << >>, << >>)

\* A verb on context c with fixed severity sev: Log is called when the gate is
\* open; ret is returned unless Log panicked. The maps Log allocated are
\* garbage after the call.
Returned(op, c, sev, args, r, ret) ==
  /\ last' = [NoCall EXCEPT !.op = op, !.c = c, !.threshold = Level,
                            !.push = pushMetrics, !.gate = sev, !.args = args,
                            !.lines = r.lines, !.calls = r.calls, !.panic = r.panic,
                            !.ret = IF r.panic THEN << >> ELSE ret]
  /\ heap' = SubSeq(r.h, 1, Len(heap))
  /\ UNCHANGED << argv, listVars, metricVars, logVars, ctxs, born, trxVars >>

Verb(op, c, sev, open, level, message, args, ret) ==
  Returned(op, c, sev, args,
           IF open THEN LogResult(heap, ctxs[c], level, message, args) ELSE Skipped,
           ret)

logError(c, value, args) ==
  Verb("Error", c, LOG_ERROR, ErrorOpen, "error", value, args, << value >>)

logCritic(c, value, args) ==
  Verb("Critic", c, CRITIC, CriticOpen, "critic", value, args, << value >>)

\* Errorf(format, a...): Log is called with the formatted error alone.
logErrorf(c, format) ==
  Verb("Errorf", c, LOG_ERROR, ErrorfOpen, "error", format, << >>, << format >>)

logInfo(c, value, args) == Verb("Info", c, INFO, InfoOpen, "info", value, args, << >>)

logDebug(c, value, args) == Verb("Debug", c, DEBUG, DebugOpen, "debug", value, args, << >>)

logTrace(c, value, args) == Verb("Trace", c, TRACE, TraceOpen, "trace", value, args, << >>)

logMetric(c, value, args) ==
  Verb("Metric", c, METRICS, MetricOpen, "metric", value, args, << >>)

\* Fatalf(format, a...): context.Log("fatal", format, a) hands the slice a to
\* Log as ONE variadic argument, of type []interface{}; os.Exit(1) follows
\* when Log returns.
Exited(c, r) ==
  /\ last' = [NoCall EXCEPT !.op = "Fatalf", !.c = c, !.threshold = Level,
                            !.push = pushMetrics, !.gate = FATAL,
                            !.args = << ArgOther >>,
                            !.lines = r.lines, !.calls = r.calls,
                            !.panic = r.panic, !.exit = ~r.panic]
  /\ heap' = SubSeq(r.h, 1, Len(heap))
  /\ UNCHANGED << argv, listVars, metricVars, logVars, ctxs, born, trxVars >>

logFatalf(c, format) ==
  Exited(c, IF FatalfOpen
            THEN LogResult(heap, ctxs[c], "fatal", format, << ArgOther >>)
            ELSE Skipped)

-----------------------------------------------------------------------------
(* package log: deriving contexts *)

Context(t, tags, metricTags) ==
  [transaction |-> t, tags |-> tags, metricTags |-> metricTags]

\* What a context holds: the contents of its maps and its transaction.
Holds(h, c) == [transaction |-> c.transaction, tags |-> h[c.tags],
                metricTags |-> h[c.metricTags]]

\* History of a derivation: the parent, the operation and its argument.
Birth(h, c, parent, how, arg) ==
  [holds |-> Holds(h, c), parent |-> parent, how |-> how, arg |-> arg]

WithContext(c, tags) ==
  /\ Len(ctxs) < MaxCtx
  /\ LET r == merge(heap, ctxs[c].tags, tags)
         new == Context(ctxs[c].transaction, r.r, ctxs[c].metricTags)
     IN /\ heap' = r.h
        /\ ctxs' = Append(ctxs, new)
        /\ born' = Append(born, Birth(r.h, new, c, "WithContext", tags))
  /\ last' = [NoCall EXCEPT !.op = "WithContext", !.c = c]
  /\ UNCHANGED << argv, listVars, metricVars, logVars, trxVars >>

WithMetricsContext(c, metricTags) ==
  /\ Len(ctxs) < MaxCtx
  /\ LET r == Merge(heap, ctxs[c].metricTags, metricTags)
         new == Context(ctxs[c].transaction, ctxs[c].tags, r.r)
     IN /\ heap' = r.h
        /\ ctxs' = Append(ctxs, new)
        /\ born' = Append(born, Birth(r.h, new, c, "WithMetricsContext", metricTags))
  /\ last' = [NoCall EXCEPT !.op = "WithMetricsContext", !.c = c]
  /\ UNCHANGED << argv, listVars, metricVars, logVars, trxVars >>

\* context.Transaction(name): a context on a new transaction when forwarding
\* is enabled, the context itself otherwise.
logTransaction(c, name) ==
  /\ Len(ctxs) < MaxCtx
  /\ IF pushMetrics
     THEN /\ Len(trxs) < MaxTrx
          /\ nrEnd' = StartTransaction(nrEnd)
          /\ trxs' = Append(trxs, [nrTrx |-> Len(nrEnd'.trx)])
          /\ ctxs' = Append(ctxs, Context(Len(trxs'), ctxs[c].tags, ctxs[c].metricTags))
     ELSE /\ ctxs' = Append(ctxs, ctxs[c])
          /\ UNCHANGED << trxs, nrEnd >>
  /\ born' = Append(born, Birth(heap, ctxs'[Len(ctxs')], c, "Transaction", EmptyTags))
  /\ last' = [NoCall EXCEPT !.op = "Transaction", !.c = c]
  /\ UNCHANGED << argv, listVars, metricVars, logVars, heap, segs >>

\* context.StartSegment(name): logs at METRICS severity, then starts a segment
\* on the context's transaction, or returns NullSegment().
StartedSegment(c, r) ==
  /\ last' = [NoCall EXCEPT !.op = "StartSegment", !.c = c, !.threshold = Level,
                            !.push = pushMetrics, !.gate = METRICS,
                            !.lines = r.lines, !.calls = r.calls]
  /\ heap' = SubSeq(r.h, 1, Len(heap))
  /\ IF ctxs[c].transaction # 0
     THEN /\ nrEnd' = StartSegment(nrEnd)
          /\ segs' = Append(segs, [nrSeg |-> Len(nrEnd'.seg)])
     ELSE /\ segs' = Append(segs, [nrSeg |-> 0])
          /\ UNCHANGED nrEnd
  /\ UNCHANGED << argv, listVars, metricVars, logVars, ctxs, born, trxs >>

logStartSegment(c, name) ==
  /\ Len(segs) < MaxSegs
  /\ StartedSegment(c, IF MetricOpen
                       THEN LogResult(heap, ctxs[c], "metric", "Segment started", << >>)
                       ELSE Skipped)

\* context.EndTransaction()
logEndTransaction(c) ==
  /\ ctxs[c].transaction # 0 /\ trxs[ctxs[c].transaction].nrTrx # 0
       => nrEnd.trx[trxs[ctxs[c].transaction].nrTrx] < MaxEnds
  /\ nrEnd' = IF ctxs[c].transaction # 0
              THEN TransactionEndBackend(nrEnd, ctxs[c].transaction)
              ELSE nrEnd
  /\ last' = [NoCall EXCEPT !.op = "EndTransaction", !.c = c]
  /\ UNCHANGED << argv, listVars, metricVars, logVars, ctxVars, trxs, segs >>

-----------------------------------------------------------------------------
(* Initial states *)

\* var defaultContext = logContext{tags: Tags{}, transaction: nil, metricTags: metrics.Tags{}}
defaultHeap == << EmptyTags, EmptyTags >>
defaultContext == Context(0, 1, 2)

NoLists == arrays = << >> /\ lists = << >> /\ expect = << >>
NoTrx == trxs = << >> /\ segs = << >> /\ nrEnd = [trx |-> << >>, seg |-> << >>]

\* The package variables as declared: no prefix, no default tags, threshold
\* NONE, forwarding disabled.
Declared ==
  /\ namePrefix = ""
  /\ defaultTags = EmptyTags
  /\ Level = NONE
  /\ pushMetrics = FALSE

OnlyDefaultContext ==
  /\ heap = defaultHeap
  /\ ctxs = << defaultContext >>
  /\ born = << Birth(defaultHeap, defaultContext, 0, "default", EmptyTags) >>

\* The state after log.PushMetrics("svc", "prod").
Forwarding ==
  /\ namePrefix = "svc"
  /\ defaultTags = [k \in {"cluster"} |-> "prod"]
  /\ pushMetrics = TRUE

\* The state after
\*   PushMetrics("svc", "prod")
\*   WithContext(Tags{"x": "1"}).WithMetricsContext(metrics.Tags{"m": "2"}).Transaction("t")
\* with the intermediate contexts dropped.
tracedHeap == << EmptyTags, EmptyTags, [k \in {"x"} |-> "1"], [k \in {"m"} |-> "2"] >>
tracedContext == Context(1, 3, 4)

TracedContext ==
  /\ Forwarding
  /\ Level = NONE
  /\ heap = tracedHeap
  /\ ctxs = << defaultContext, tracedContext >>
  /\ born = << Birth(tracedHeap, defaultContext, 0, "default", EmptyTags),
               Birth(tracedHeap, tracedContext, 1, "Transaction", EmptyTags) >>
  /\ trxs = << [nrTrx |-> 1] >>
  /\ segs = << >>
  /\ nrEnd = [trx |-> << 0 >>, seg |-> << >>]

-----------------------------------------------------------------------------
(* Metric Lists: a base list and the lists derived from it *)

TagLists == { << >>, << [k \in {"x"} |-> "1"] >>,
              << [k \in {"x"} |-> "1"], [k \in {"x"} |-> "2"] >> }

InitMetrics ==
  /\ argv = << >>
  /\ \E n \in 0..MaxBase :
       LET b == IF n = 0 THEN [arrays |-> << >>, slice |-> NilSlice] ELSE BuildBase(n)
       IN /\ arrays = b.arrays
          /\ lists = << b.slice >>
          /\ expect = << Contents(b.arrays, b.slice) >>
  /\ Declared /\ OnlyDefaultContext /\ NoTrx
  /\ last = NoCall

NextMetrics ==
  \/ \E i \in 1..Len(lists), name \in Names, value \in Values, tags \in TagLists :
       MetricsFull(i, name, value, tags)
  \/ \E i \in 1..Len(lists), name \in Names, value \in Values, tags \in TagLists :
       MetricsSimple(i, name, value, tags)
  \/ \E i \in 1..Len(lists), name \in Names, value \in Values, tags \in TagLists :
       MetricsCompound(i, name, value, tags)
  \/ \E i \in 1..Len(lists), name \in Names, tags \in TagLists : MetricsCounter(i, name, tags)
  \/ \E i \in 1..Len(lists), name \in Names, tags \in TagLists : MetricsError(i, name, tags)
  \/ \E name \in Names, value \in Values, tags \in TagLists : Full(name, value, tags)
  \/ \E name \in Names, value \in Values, tags \in TagLists : Simple(name, value, tags)
  \/ \E name \in Names, tags \in TagLists : Error(name, tags)
  \/ \E name \in Names, value \in Values, tags \in TagLists : Compound(name, value, tags)
  \/ \E name \in Names, tags \in TagLists : Counter(name, tags)

SpecMetrics == InitMetrics /\ [][NextMetrics]_vars

-----------------------------------------------------------------------------
(* PushMetric called directly *)

\* Metric records a caller can hold: built by the constructors, or a literal
\* whose unexported type is the zero value "".
PushTypes == MetricTypes \cup {""}
PushInputs ==
  { Metric(t, "a", v, tg) : t \in PushTypes, v \in Values,
                            tg \in {EmptyTags, [k \in {"x"} |-> "1"], [k \in {"y"} |-> "2"]} }

\* A Transaction that wraps no handle (a literal) and one made by Trx.
InitPush ==
  /\ argv = << >>
  /\ NoLists /\ Declared /\ OnlyDefaultContext
  /\ trxs = << [nrTrx |-> 0], [nrTrx |-> 1] >>
  /\ segs = << >>
  /\ nrEnd = [trx |-> << 0 >>, seg |-> << >>]
  /\ last = NoCall

NextPush ==
  \/ \E prefix \in Prefixes : UsePrefix(prefix)
  \/ \E tags \in {[k \in {"cluster"} |-> "prod"], [k \in {"x"} |-> "0"]} : DefaultTags(tags)
  \/ \E metric \in PushInputs, t \in Trxs, tags \in TagLists : PushMetric(metric, t, tags)

SpecPush == InitPush /\ [][NextPush]_vars

-----------------------------------------------------------------------------
(* Transactions and segments, alone and through log contexts *)

InitTrx ==
  /\ argv = << >>
  /\ NoLists /\ Forwarding /\ OnlyDefaultContext
  /\ Level \in {INFO, NONE}
  /\ trxs = << [nrTrx |-> 0] >>
  /\ segs = << >>
  /\ nrEnd = [trx |-> << >>, seg |-> << >>]
  /\ last = NoCall

NextTrx ==
  \/ Trx("t")
  \/ \E t \in 1..Len(trxs) : TransactionSegment(t, "s")
  \/ NullSegment
  \/ \E t \in 1..Len(trxs) : TransactionEnd(t)
  \/ \E s \in 1..Len(segs) : SegmentEnd(s)
  \/ \E c \in Ctxs : logTransaction(c, "t")
  \/ \E c \in Ctxs : logStartSegment(c, "s")
  \/ \E c \in Ctxs : logEndTransaction(c)
  \/ \E c \in Ctxs : WithContext(c, [k \in {"x"} |-> "1"])

SpecTrx == InitTrx /\ [][NextTrx]_vars

-----------------------------------------------------------------------------
(* The level filter and the verbs *)

InitLog ==
  /\ argv \in ArgLists
  /\ NoLists
  /\ last = NoCall
  /\ \/ Declared /\ OnlyDefaultContext /\ NoTrx
     \/ TracedContext

NextLog ==
  \/ \E l \in LevelInputs : SetLevel(l)
  \/ \E name \in NameInputs : SetLevelByName(name)
  \/ \E env \in EnvInputs : SetLevelFromEnv(env)
  \/ PushMetrics("svc", "prod")
  \/ \E c \in Ctxs, value \in Messages : logError(c, value, argv)
  \/ \E c \in Ctxs, value \in Messages : logCritic(c, value, argv)
  \/ \E c \in Ctxs, value \in Messages : logInfo(c, value, argv)
  \/ \E c \in Ctxs, value \in Messages : logDebug(c, value, argv)
  \/ \E c \in Ctxs, value \in Messages : logTrace(c, value, argv)
  \/ \E c \in Ctxs, value \in Messages : logMetric(c, value, argv)
  \/ \E c \in Ctxs, format \in Messages : logErrorf(c, format)
  \/ \E c \in Ctxs, format \in Messages : logFatalf(c, format)

SpecLog == InitLog /\ [][NextLog]_vars

-----------------------------------------------------------------------------
(* Deriving contexts and logging on them *)

CtxTagChoices == { [k \in {"x"} |-> "1"], [k \in {"y"} |-> "2"], [k \in {"x"} |-> "2"] }
CtxArgLists ==
  { << ArgTags([k \in {"x"} |-> "2"]), ArgMetricTags([k \in {"m"} |-> "1"]) >>,
    << ArgString("ev"), ArgMetrics(MetricsB) >> }

Unforwarded == namePrefix = "" /\ defaultTags = EmptyTags /\ pushMetrics = FALSE

InitCtx ==
  /\ argv \in CtxArgLists
  /\ NoLists /\ OnlyDefaultContext /\ NoTrx
  /\ Forwarding \/ Unforwarded
  /\ Level = DEBUG
  /\ last = NoCall

NextCtx ==
  \/ \E c \in Ctxs, tags \in CtxTagChoices : WithContext(c, tags)
  \/ \E c \in Ctxs : WithMetricsContext(c, [k \in {"m"} |-> "2"])
  \/ \E c \in Ctxs : logTransaction(c, "t")
  \/ \E c \in Ctxs, value \in Messages : logError(c, value, argv)
  \/ \E c \in Ctxs, value \in Messages : logCritic(c, value, argv)
  \/ \E c \in Ctxs, value \in Messages : logInfo(c, value, argv)
  \/ \E c \in Ctxs, value \in Messages : logDebug(c, value, argv)
  \/ \E c \in Ctxs, value \in Messages : logTrace(c, value, argv)
  \/ \E c \in Ctxs, value \in Messages : logMetric(c, value, argv)
  \/ \E c \in Ctxs, format \in Messages : logErrorf(c, format)
  \/ \E c \in Ctxs, format \in Messages : logFatalf(c, format)

SpecCtx == InitCtx /\ [][NextCtx]_vars

-----------------------------------------------------------------------------
(* Properties *)

GatedVerbs == {"Trace", "Debug", "Info", "Metric", "Error", "Critic", "Errorf"}

\* The fixed severity of a gated verb.
SeverityOf(op) ==
  CASE op = "Trace" -> TRACE
    [] op = "Debug" -> DEBUG
    [] op = "Info" -> INFO
    [] op = "Metric" -> METRICS
    [] op \in {"Error", "Errorf"} -> LOG_ERROR
    [] op = "Critic" -> CRITIC

\* The backend's record-metric calls and NoticeError calls among calls.
IsNotice(x) == x.fn = "NoticeError"
IsRecord(x) == x.fn \in {"RecordFullMetric", "RecordSimpleMetric", "RecordCompoundMetric"}
Notices(calls) == SelectSeq(calls, IsNotice)
Records(calls) == SelectSeq(calls, IsRecord)

\* The record-metric call each defined type prescribes.
PrescribedCall(t) ==
  CASE t = FULL -> "RecordFullMetric"
    [] t = SIMPLE -> "RecordSimpleMetric"
    [] t = COMPOUND -> "RecordCompoundMetric"
    [] t = ERROR -> "RecordSimpleMetric"

\* The Metric Lists among the arguments of a call, in order.
IsMetrics(a) == a.kind = "Metrics"
MetricLists(args) == SelectSeq(args, IsMetrics)

\* The records of every Metric List among args, in order.
RECURSIVE AllRecords(_)
AllRecords(args) ==
  IF args = << >> THEN << >>
  ELSE (IF IsMetrics(Head(args)) THEN Head(args).m ELSE << >>) \o AllRecords(Tail(args))

\* The records of the last Metric List among args.
LastRecords(args) ==
  IF MetricLists(args) = << >> THEN << >>
  ELSE MetricLists(args)[Len(MetricLists(args))].m

HasDefinedType(m) == m.metricType \in MetricTypes
HasUnknownType(m) == m.metricType \notin MetricTypes
HasUnsupported(args) == \E i \in 1..Len(args) : args[i].kind = "other"

\* (name, record-metric call) of each record of ms that has a defined type.
Dispatches(ms) ==
  [i \in 1..Len(SelectSeq(ms, HasDefinedType)) |->
     << SelectSeq(ms, HasDefinedType)[i].Name,
        PrescribedCall(SelectSeq(ms, HasDefinedType)[i].metricType) >>]

\* (name, record-metric call) of each record-metric call made.
Dispatched(calls) ==
  [i \in 1..Len(Records(calls)) |-> << Records(calls)[i].name[3], Records(calls)[i].fn >>]

\* m holds a's entries overridden by b's.
RightBiased(m, a, b) ==
  /\ DOMAIN m = DOMAIN a \cup DOMAIN b
  /\ \A k \in DOMAIN m : m[k] = IF k \in DOMAIN b THEN b[k] ELSE a[k]

\* C1: every Metric List holds the records of the list it was derived from
\* followed by its own new record, in call order, and a list never changes
\* when another add is made on the same base (or anywhere else).
C1_ListsKeepTheirRecords ==
  \A i \in 1..Len(lists) : Contents(arrays, lists[i]) = expect[i]

\* C2: over any sequence of End calls (Transaction.End, Segment.End,
\* logContext.EndTransaction on any context sharing the transaction) the
\* backend End of a handle is invoked at most once.
C2_EndInvokedAtMostOnce ==
  /\ \A h \in 1..Len(nrEnd.trx) : nrEnd.trx[h] <= 1
  /\ \A h \in 1..Len(nrEnd.seg) : nrEnd.seg[h] <= 1

\* C3 as stated: a gated verb with severity S emits exactly one line when the
\* threshold is <= S and no line when the threshold is > S.
C3_ExactlyOneLineIffOpen ==
  last.op \in GatedVerbs =>
    Len(last.lines) = IF last.threshold <= SeverityOf(last.op) THEN 1 ELSE 0

\* C3 as amended: a gated verb with severity S emits no line when the
\* threshold is > S; when the threshold is <= S it panics before writing
\* anything if an argument has an unsupported type, and otherwise writes its
\* own line once, followed by one nested error line for each record of
\* unknown metric type in the forwarded Metric List when forwarding is enabled.
C3_LinesOfGatedVerb ==
  last.op \in GatedVerbs =>
    /\ last.panic <=>
         (last.threshold <= SeverityOf(last.op) /\ HasUnsupported(last.args))
    /\ Len(last.lines) =
         IF last.threshold > SeverityOf(last.op) \/ HasUnsupported(last.args) THEN 0
         ELSE IF last.push
              THEN 1 + Len(SelectSeq(LastRecords(last.args), HasUnknownType))
              ELSE 1
    /\ last.threshold = NONE => last.lines = << >>

\* A verb called with the threshold exactly at its severity, carrying
\* arguments, wrote its one line.
C3_Witness ==
  /\ last.op = "Debug"
  /\ last.threshold = DEBUG
  /\ Len(last.args) = MaxArgs
  /\ Len(last.lines) = 1

\* C4: for every threshold, a Fatalf call writes its log line and then ends
\* the process with os.Exit.
C4_FatalfLogsThenExits ==
  last.op = "Fatalf" => Len(last.lines) >= 1 /\ last.exit

\* C5: every key of the Metric Record's own tags is in the tag list PushMetric
\* forwards, unless an extra tag map of the call holds the key.
C5_RecordTagsForwarded ==
  (last.op = "PushMetric" /\ Records(last.calls) # << >>) =>
    \A k \in DOMAIN last.metric.tags :
      (\A i \in 1..Len(last.extra) : k \notin DOMAIN last.extra[i])
        => << k, last.metric.tags[k] >> \in Records(last.calls)[1].tags

\* C6: PushMetric of an ERROR-type metric makes exactly one record-metric
\* call, a simple metric of value 1; with a transaction that wraps a backend
\* handle it calls that handle's NoticeError exactly once, before the
\* record-metric call; with no transaction it never calls NoticeError.
C6_ErrorNotifiesThenRecords ==
  (last.op = "PushMetric" /\ last.metric.metricType = ERROR) =>
    /\ Len(Records(last.calls)) = 1
    /\ Records(last.calls)[1].fn = "RecordSimpleMetric"
    /\ Records(last.calls)[1].value = 1
    /\ (last.trx # 0 /\ trxs[last.trx].nrTrx # 0) =>
         /\ Len(last.calls) = 2
         /\ IsNotice(last.calls[1])
         /\ last.calls[1].h = trxs[last.trx].nrTrx
         /\ IsRecord(last.calls[2])
    /\ last.trx = 0 => Notices(last.calls) = << >>

\* An ERROR metric of value 2 pushed with an active transaction.
C6_Witness ==
  /\ last.op = "PushMetric"
  /\ last.metric.metricType = ERROR
  /\ last.metric.Value = 2
  /\ last.trx # 0 /\ trxs[last.trx].nrTrx # 0
  /\ Len(last.calls) = 2

\* C7: when forwarding is enabled and a verb is emitted, every record of every
\* Metric List among its arguments is dispatched through PushMetric exactly
\* once, in order.
C7_EveryListForwarded ==
  (/\ last.op \in GatedVerbs
   /\ last.push
   /\ last.threshold <= SeverityOf(last.op)
   /\ ~last.panic)
    => Dispatched(last.calls) = Dispatches(AllRecords(last.args))

\* C8: a context holds what it held when it was derived, whatever was derived
\* from it or logged since; WithContext and WithMetricsContext children carry
\* the parent's transaction; each derivation changes only its own part, by the
\* right-biased merge of the parent's map and the argument; Transaction(name)
\* keeps the maps and gives a transaction no other context has when
\* forwarding is enabled, the parent's otherwise.
C8_DerivingNeverMutates ==
  \A i \in 1..Len(ctxs) :
    /\ Holds(heap, ctxs[i]) = born[i].holds
    /\ born[i].how = "WithContext" =>
         /\ born[i].holds.transaction = born[born[i].parent].holds.transaction
         /\ born[i].holds.metricTags = born[born[i].parent].holds.metricTags
         /\ RightBiased(born[i].holds.tags, born[born[i].parent].holds.tags, born[i].arg)
    /\ born[i].how = "WithMetricsContext" =>
         /\ born[i].holds.transaction = born[born[i].parent].holds.transaction
         /\ born[i].holds.tags = born[born[i].parent].holds.tags
         /\ RightBiased(born[i].holds.metricTags, born[born[i].parent].holds.metricTags,
                        born[i].arg)
    /\ born[i].how = "Transaction" =>
         /\ born[i].holds.tags = born[born[i].parent].holds.tags
         /\ born[i].holds.metricTags = born[born[i].parent].holds.metricTags
         /\ IF pushMetrics
            THEN \A j \in 1..(i - 1) : ctxs[j].transaction # ctxs[i].transaction
            ELSE ctxs[i].transaction = ctxs[born[i].parent].transaction

\* WithContext({x:1}).WithContext({y:2}) was built, and a verb emitted a line
\* on the child of a context that has a child of its own.
C8_Witness ==
  /\ Len(ctxs) = 3
  /\ born[2].how = "WithContext" /\ born[2].parent = 1
  /\ born[3].how = "WithContext" /\ born[3].parent = 2
  /\ heap[ctxs[3].tags] = [k \in {"x", "y"} |-> IF k = "x" THEN "1" ELSE "2"]
  /\ last.op = "Info" /\ last.c = 2 /\ Len(last.args) > 0 /\ Len(last.lines) >= 1

\* C9: PushMetric of a record whose type is none of FULL, SIMPLE, COMPOUND,
\* ERROR returns the "unknown metric type" error and makes no backend call;
\* for each of the four types it returns nil and makes exactly one
\* record-metric call, of the kind the type prescribes.
C9_UnknownTypeOnlyErrors ==
  last.op = "PushMetric" =>
    IF last.metric.metricType \notin MetricTypes
    THEN /\ last.ret # << >>
         /\ last.ret[1] = "Unkown metric type"
         /\ last.calls = << >>
    ELSE /\ last.ret = << >>
         /\ Len(Records(last.calls)) = 1
         /\ Records(last.calls)[1].fn = PrescribedCall(last.metric.metricType)

\* A record of unknown type pushed with an active transaction.
C9_Witness ==
  /\ last.op = "PushMetric"
  /\ last.metric.metricType \notin MetricTypes
  /\ last.trx # 0 /\ trxs[last.trx].nrTrx # 0
  /\ last.ret # << >>

\* C10: a gated verb called below the threshold writes no line, makes no
\* backend call and does not panic, whatever its arguments; Error, Critic and
\* Errorf still return their error.
C10_SuppressedVerbDoesNothing ==
  (last.op \in GatedVerbs /\ last.threshold > SeverityOf(last.op)) =>
    /\ last.lines = << >>
    /\ last.calls = << >>
    /\ ~last.panic
    /\ last.op \in {"Error", "Critic", "Errorf"} => last.ret \in { << m >> : m \in Messages }

\* Error called below the threshold with forwarding enabled, a Metric List
\* and an argument of unsupported type.
C10_Witness ==
  /\ last.op = "Error"
  /\ last.threshold > LOG_ERROR
  /\ last.push
  /\ MetricLists(last.args) # << >>
  /\ HasUnsupported(last.args)
  /\ last.ret # << >>

====
